---- MODULE Spec2Model ----
(***************************************************************************)
(* Ring buffer of JoergWarthemann/ringbuffer.                              *)
(*                                                                         *)
(* Spec    : the sequential RingBuffer (unnamed/part_002), one call per    *)
(*           step.                                                         *)
(* SpecSingle : the same, single-element calls only.                       *)
(* SpecLF  : the lock-free RingBuffer (unnamed/part_005) with one producer *)
(*           thread and one consumer thread, one atomic load / store or    *)
(*           one slot access per step.                                     *)
(*           reset() runs while both threads are outside their calls.      *)
(* SpecChunks : the same, bulk insert and bulk copy only.                  *)
(* SpecBulk : the sequential RingBuffer, bulk inserts of blocks no longer  *)
(*           than the capacity, and copies.                                *)
(* The element values are the serial numbers 1, 2, 3, ... in the order the *)
(* caller hands them to insert: the buffer never inspects an element, so   *)
(* distinct values are the most general input.  0 is Element().            *)
(*                                                                         *)
(* Every slot carries the number of Element objects alive in it            *)
(* (constructions minus destructions), and every call records the slots it *)
(* destructed, constructed and read.  A destructor run on a slot without a *)
(* live element, a read of such a slot, an access outside the storage      *)
(* block and x % 0 are undefined behaviour: the call then either kills the *)
(* process ("crashed") or returns ("undefined"), and the run ends.         *)
(***************************************************************************)
EXTENDS Integers, Sequences, FiniteSets, TLC

\* ---------------------------------------------------------------- bounds
MaxCap == 3          \* capacities 0 .. MaxCap are constructed / resized to
MaxLen == 5          \* block lengths 0 .. MaxLen are bulk-inserted
MaxTotal == 7        \* elements handed to insert over the whole run
MaxBack == 7         \* samplesBackward / numberOfElements 0 .. MaxBack
MaxCapLF == 2        \* capacities 0 .. MaxCapLF of the two-thread runs
MaxChunk == 2        \* the producer thread inserts chunks of 1 .. MaxChunk
MaxTotalLF == 4      \* elements the producer thread inserts in a run
MaxAsk == 2          \* the consumer thread asks for 0 .. MaxAsk

\* std::size_t arithmetic is modulo 2^N; the model keeps the wrap-around
\* with a reduced width, every index of the model being far below it.
SizeModulus == 65536

DefaultElement == 0  \* Element()

\* What a move constructor leaves in its source: for the element types of
\* the repository's tests (std::string) the empty value.
MovedFrom == DefaultElement

VARIABLES
    capacity_,       \* std::size_t capacity_
    writePosition_,  \* std::size_t writePosition_
    currentSize_,    \* std::size_t currentSize_
    buffer_,         \* the storage block: [0 .. length-1 -> slot]
    status,          \* "ok", or how the process ended
    history,         \* elements inserted since construction / last reset
    nextVal,         \* the next element the caller inserts
    call,            \* what the last call did and returned
    readPosition_,   \* std::atomic<std::size_t> readPosition_ (lock-free variant)
    producer,        \* the producer thread: its position in insert and its locals
    consumer         \* the consumer thread: its position in copy and its locals

ringVars == <<capacity_, writePosition_, currentSize_, buffer_>>
threadVars == <<readPosition_, producer, consumer>>
vars == <<capacity_, writePosition_, currentSize_, buffer_, status, history, nextVal, call,
          readPosition_, producer, consumer>>

\* -------------------------------------------------------------- helpers
Min(a, b) == IF a < b THEN a ELSE b

SizeT(x) == x % SizeModulus

\* A slot of raw storage: the bytes it holds and the number of Element
\* objects alive in it (constructions minus destructions).
RawSlot == [val |-> 0, live |-> 0]

\* new ElementStorageType[n]
NewStorage(n) == [i \in 0 .. n - 1 |-> RawSlot]

\* The block the caller passes to a bulk insert: the next len elements.
Block(first, len) == [j \in 1 .. len |-> first + j - 1]

\* The ring as one value, with the trace of the call in progress.
\* owned: the call's argument is an rvalue (T&& deduced from an owned
\* temporary); src: the caller's source elements as the call leaves them;
\* moved: the source elements moved from, in order.
Ring == [cap |-> capacity_, w |-> writePosition_, size |-> currentSize_,
         buf |-> buffer_, dtor |-> <<>>, ctor |-> <<>>, faults |-> {},
         owned |-> FALSE, src |-> <<>>, moved |-> <<>>]

\* The ring entering a call whose argument is source, offered as an owned
\* temporary (std::move) or by reference.
Offered(r, source, owned) == [r EXCEPT !.owned = owned, !.src = source]

\* The value a constructor receives from source element j: through a
\* move_iterator / std::forward of an rvalue it is what the source holds
\* now, through a reference it is the caller's element.
sourceValue(r, source, j) == IF r.owned THEN r.src[j] ELSE source[j]

\* Element(std::forward<T>(...)) has run on source element j: the move
\* constructor leaves it moved-from, the copy constructor leaves it alone.
leaveSource(r, j) ==
    IF r.owned
    THEN [r EXCEPT !.src[j] = MovedFrom, !.moved = Append(@, j)]
    ELSE r

\* reinterpret_cast<Element*>(&buffer_.get()[i])->~Element()
destructElement(r, i) ==
    IF i \in DOMAIN r.buf
    THEN [r EXCEPT !.buf[i].live = @ - 1,
                   !.dtor = Append(@, i),
                   !.faults = IF r.buf[i].live = 1 THEN @ ELSE @ \cup {"destruct_dead"}]
    ELSE [r EXCEPT !.dtor = Append(@, i), !.faults = @ \cup {"out_of_bounds"}]

\* new(&buffer_.get()[i]) Element(sample)
constructElement(r, i, sample) ==
    IF i \in DOMAIN r.buf
    THEN [r EXCEPT !.buf[i] = [val |-> sample, live |-> @.live + 1],
                   !.ctor = Append(@, i),
                   !.faults = IF r.buf[i].live = 0 THEN @ ELSE @ \cup {"construct_live"}]
    ELSE [r EXCEPT !.ctor = Append(@, i), !.faults = @ \cup {"out_of_bounds"}]

\* destruct(from, to): enumerate runs first != last, ++first.  Past the end
\* of the storage block the walk has left the object: it is cut there.
RECURSIVE destruct(_, _, _)
destruct(r, from, to) ==
    IF from = to THEN r
    ELSE IF from \notin DOMAIN r.buf THEN destructElement(r, from)
    ELSE destruct(destructElement(r, from), from + 1, to)

\* ------------------------------------------------------------- insert
\* insertImpl that grows the size without looking at the capacity
insertImpl_alwaysGrows(r, sample) ==
    LET r1 == [r EXCEPT !.size = @ + 1]
        r2 == constructElement(r1, r.w, sample)
    IN  IF r.cap = 0
        THEN [r2 EXCEPT !.faults = @ \cup {"modulo_zero"}]
        ELSE [r2 EXCEPT !.w = (r.w + 1) % r.cap]

\* insertImpl that constructs with Element(sample), without std::forward:
\* an owned temporary is copied and stays as it was
insertImpl_alwaysCopies(r, sample) ==
    LET r1 == IF r.size = r.cap
              THEN destructElement(r, r.w)
              ELSE [r EXCEPT !.size = @ + 1]
        r2 == constructElement(r1, r.w, sample)
    IN  IF r.cap = 0
        THEN [r2 EXCEPT !.faults = @ \cup {"modulo_zero"}]
        ELSE [r2 EXCEPT !.w = (r.w + 1) % r.cap]

insertImpl(r, sample) ==
    LET r1 == IF r.size = r.cap
              THEN destructElement(r, r.w)
              ELSE [r EXCEPT !.size = @ + 1]
        r2 == leaveSource(constructElement(r1, r.w, sample), 1)
    IN  IF r.cap = 0
        THEN [r2 EXCEPT !.faults = @ \cup {"modulo_zero"}]
        ELSE [r2 EXCEPT !.w = (r.w + 1) % r.cap]

\* std::uninitialized_copy(&source[sourceStart], &source[sourceStart+number-1]+1, &buffer_[destinationStart])
RECURSIVE uninitialized_copy(_, _, _, _, _)
uninitialized_copy(r, source, sourceStart, destinationStart, number) ==
    IF number = 0 THEN r
    ELSE uninitialized_copy(
            leaveSource(constructElement(r, destinationStart,
                                         sourceValue(r, source, sourceStart + 1)),
                        sourceStart + 1),
            source, sourceStart + 1, destinationStart + 1, number - 1)

\* make_forward_iterator<T>(&source[sourceStart + number - 1]) + 1: with
\* number 0 at sourceStart 0 the index wraps to the largest std::size_t
\* and source[...] is applied outside every source
sourceRange(r, sourceStart, number) ==
    IF SizeT(sourceStart + number - 1) = SizeModulus - 1
    THEN [r EXCEPT !.faults = @ \cup {"source_out_of_range"}]
    ELSE r

\* insertBlockElements that forgets to update the size
insertBlockElements_keepsSize(r, source, sourceStart, destinationStart, number) ==
    LET r1 == IF r.size = r.cap
              THEN destruct(r, destinationStart, destinationStart + number)
              ELSE r
    IN  uninitialized_copy(sourceRange(r1, sourceStart, number),
                           source, sourceStart, destinationStart, number)

\* insertBlockElements that never destructs the occupants it overwrites
insertBlockElements_neverDestructs(r, source, sourceStart, destinationStart, number) ==
    LET r2 == uninitialized_copy(sourceRange(r, sourceStart, number),
                                 source, sourceStart, destinationStart, number)
    IN  IF r.size < r.cap
        THEN [r2 EXCEPT !.size = Min(r.cap, r.size + number)]
        ELSE r2

insertBlockElements(r, source, sourceStart, destinationStart, number) ==
    LET r1 == IF r.size = r.cap
              THEN destruct(r, destinationStart, destinationStart + number)
              ELSE r
        r2 == uninitialized_copy(sourceRange(r1, sourceStart, number),
                                 source, sourceStart, destinationStart, number)
    IN  IF r.size < r.cap
        THEN [r2 EXCEPT !.size = Min(r.cap, r.size + number)]
        ELSE r2

\* insertBlockImpl that takes an oversized block from its start instead of
\* taking its trailing capacity elements
insertBlockImpl_fromBlockStart(r, block, blockLength) ==
    LET adjustedBlockLength == IF blockLength > r.cap THEN r.cap ELSE blockLength
        split == (r.w + adjustedBlockLength) > r.cap
        rA == insertBlockElements(r, block, 0, r.w, r.cap - r.w)
        rB == insertBlockElements(rA, block, r.cap - r.w,
                                  0, adjustedBlockLength - r.cap + r.w)
        rS == [rB EXCEPT !.w = adjustedBlockLength - r.cap + r.w]
        rC == insertBlockElements(r, block, 0, r.w, adjustedBlockLength)
        rN == [rC EXCEPT !.w = r.w + adjustedBlockLength]
        r3 == IF split THEN rS ELSE rN
    IN  IF r3.w > SizeT(r.cap - 1) THEN [r3 EXCEPT !.w = 0] ELSE r3

\* insertBlockImpl that writes the span before the physical end last, so
\* that a block straddling the end is stored out of order
insertBlockImpl_spansSwapped(r, block, blockLength) ==
    LET adjustedBlockLength == IF blockLength > r.cap THEN r.cap ELSE blockLength
        split == (r.w + adjustedBlockLength) > r.cap
        rA == insertBlockElements(r, block, blockLength - adjustedBlockLength,
                                  0, adjustedBlockLength - r.cap + r.w)
        rB == insertBlockElements(rA, block, adjustedBlockLength - r.cap + r.w,
                                  r.w, r.cap - r.w)
        rS == [rB EXCEPT !.w = adjustedBlockLength - r.cap + r.w]
        rC == insertBlockElements(r, block, blockLength - adjustedBlockLength,
                                  r.w, adjustedBlockLength)
        rN == [rC EXCEPT !.w = r.w + adjustedBlockLength]
        r3 == IF split THEN rS ELSE rN
    IN  IF r3.w > SizeT(r.cap - 1) THEN [r3 EXCEPT !.w = 0] ELSE r3

\* insertBlockImpl without the final "writePosition_ > capacity_ - 1" test
insertBlockImpl_noWrapToZero(r, block, blockLength) ==
    LET adjustedBlockLength == IF blockLength > r.cap THEN r.cap ELSE blockLength
        split == (r.w + adjustedBlockLength) > r.cap
        rA == insertBlockElements(r, block, blockLength - adjustedBlockLength,
                                  r.w, r.cap - r.w)
        rB == insertBlockElements(rA, block, r.cap - r.w,
                                  0, adjustedBlockLength - r.cap + r.w)
        rS == [rB EXCEPT !.w = adjustedBlockLength - r.cap + r.w]
        rC == insertBlockElements(r, block, blockLength - adjustedBlockLength,
                                  r.w, adjustedBlockLength)
        rN == [rC EXCEPT !.w = r.w + adjustedBlockLength]
    IN  IF split THEN rS ELSE rN

\* insertBlockImpl that puts the write position back to 0 after a split
\* insert
insertBlockImpl_splitRewinds(r, block, blockLength) ==
    LET adjustedBlockLength == IF blockLength > r.cap THEN r.cap ELSE blockLength
        split == (r.w + adjustedBlockLength) > r.cap
        rA == insertBlockElements(r, block, blockLength - adjustedBlockLength,
                                  r.w, r.cap - r.w)
        rB == insertBlockElements(rA, block, r.cap - r.w,
                                  0, adjustedBlockLength - r.cap + r.w)
        rS == [rB EXCEPT !.w = 0]
        rC == insertBlockElements(r, block, blockLength - adjustedBlockLength,
                                  r.w, adjustedBlockLength)
        rN == [rC EXCEPT !.w = r.w + adjustedBlockLength]
        r3 == IF split THEN rS ELSE rN
    IN  IF r3.w > SizeT(r.cap - 1) THEN [r3 EXCEPT !.w = 0] ELSE r3

insertBlockImpl(r, block, blockLength) ==
    LET adjustedBlockLength == IF blockLength > r.cap THEN r.cap ELSE blockLength
        split == (r.w + adjustedBlockLength) > r.cap
        rA == insertBlockElements(r, block, blockLength - adjustedBlockLength,
                                  r.w, r.cap - r.w)
        rB == insertBlockElements(rA, block, r.cap - r.w,
                                  0, adjustedBlockLength - r.cap + r.w)
        rS == [rB EXCEPT !.w = adjustedBlockLength - r.cap + r.w]
        rC == insertBlockElements(r, block, blockLength - adjustedBlockLength,
                                  r.w, adjustedBlockLength)
        rN == [rC EXCEPT !.w = r.w + adjustedBlockLength]
        r3 == IF split THEN rS ELSE rN
    IN  IF r3.w > SizeT(r.cap - 1) THEN [r3 EXCEPT !.w = 0] ELSE r3

\* ------------------------------------------------------------ extract
\* The caller's destination array, not yet written.
Untouched == 0 - 1
DestLen == MaxBack
FreshDestination == [i \in 0 .. DestLen - 1 |-> Untouched]

\* What an extraction hands back: the destination array, the returned
\* value, the storage slots it read (in order) and the faults it ran into.
Extraction == [dest |-> FreshDestination, ret |-> 0, reads |-> <<>>, faults |-> {}]

\* *reinterpret_cast<Element*>(&buffer_.get()[i])
readElement(buf, x, i) ==
    IF i \in DOMAIN buf
    THEN [x EXCEPT !.reads = Append(@, i),
                   !.ret = buf[i].val,
                   !.faults = IF buf[i].live = 1 THEN @ ELSE @ \cup {"read_dead"}]
    ELSE [x EXCEPT !.reads = Append(@, i), !.ret = 0,
                   !.faults = @ \cup {"out_of_bounds"}]

\* enumerate(&source[first], &source[last], 0, destination[index] = element),
\* destination already advanced by offset.
RECURSIVE extractBlockElementsImpl(_, _, _, _, _)
extractBlockElementsImpl(buf, x, offset, first, last) ==
    IF first = last THEN x
    ELSE LET x1 == readElement(buf, x, first)
             x2 == IF offset \in DOMAIN x1.dest
                   THEN [x1 EXCEPT !.dest[offset] = x1.ret]
                   ELSE [x1 EXCEPT !.faults = @ \cup {"destination_overrun"}]
         IN  IF first \notin DOMAIN buf THEN x2
             ELSE extractBlockElementsImpl(buf, x2, offset + 1, first + 1, last)

\* extractBlockElements that hands the second span the destination itself,
\* not destination + size
extractBlockElements_remainingAtStart(r, requested) ==
    LET numberOfElements == IF requested > r.size THEN r.size ELSE requested
        start == (r.w + (r.size - numberOfElements)) % r.size
        size == IF (r.size - start) < numberOfElements
                THEN r.size - start ELSE numberOfElements
        x1 == extractBlockElementsImpl(r.buf, Extraction, 0, start, start + size)
        numberOfRemaining == numberOfElements - size
        startOfRemaining == (start + size) % r.size
        x2 == IF numberOfRemaining > 0
              THEN extractBlockElementsImpl(r.buf, x1, 0, startOfRemaining,
                                            startOfRemaining + numberOfRemaining)
              ELSE x1
    IN  IF numberOfElements > 0
        THEN [x2 EXCEPT !.ret = numberOfElements]
        ELSE [Extraction EXCEPT !.ret = numberOfElements]

extractBlockElements(r, requested) ==
    LET numberOfElements == IF requested > r.size THEN r.size ELSE requested
        start == (r.w + (r.size - numberOfElements)) % r.size
        size == IF (r.size - start) < numberOfElements
                THEN r.size - start ELSE numberOfElements
        x1 == extractBlockElementsImpl(r.buf, Extraction, 0, start, start + size)
        numberOfRemaining == numberOfElements - size
        startOfRemaining == (start + size) % r.size
        x2 == IF numberOfRemaining > 0
              THEN extractBlockElementsImpl(r.buf, x1, size, startOfRemaining,
                                            startOfRemaining + numberOfRemaining)
              ELSE x1
    IN  IF numberOfElements > 0
        THEN [x2 EXCEPT !.ret = numberOfElements]
        ELSE [Extraction EXCEPT !.ret = numberOfElements]

\* copy(samplesBackward) that counts back from the write position itself
copyElement_offByOne(r, samplesBackward) ==
    IF r.size = 0
    THEN [Extraction EXCEPT !.ret = DefaultElement]
    ELSE readElement(r.buf, Extraction,
            SizeT(r.w - (samplesBackward % r.cap) + r.cap) % r.cap)

\* copy(samplesBackward) that does not reduce samplesBackward modulo the
\* capacity before subtracting it
copyElement_noWrap(r, samplesBackward) ==
    IF r.size = 0
    THEN [Extraction EXCEPT !.ret = DefaultElement]
    ELSE readElement(r.buf, Extraction,
            SizeT(r.w - 1 - samplesBackward + r.cap) % r.cap)

\* Element copy(samplesBackward) const
copyElement(r, samplesBackward) ==
    IF r.size = 0
    THEN [Extraction EXCEPT !.ret = DefaultElement]
    ELSE readElement(r.buf, Extraction,
            SizeT(r.w - 1 - (samplesBackward % r.cap) + r.cap) % r.cap)

\* ---------------------------------------------------------- lifecycle
\* RingBuffer(capacity): the ring right after construction
construct(capacity) ==
    [cap |-> capacity, w |-> 0, size |-> 0, buf |-> NewStorage(capacity),
     dtor |-> <<>>, ctor |-> <<>>, faults |-> {},
     owned |-> FALSE, src |-> <<>>, moved |-> <<>>]

\* reset() that returns early on capacity 0 instead of on size 0
reset_guardsCapacity(r) ==
    IF r.cap = 0 THEN r
    ELSE LET oldestElement == SizeT(r.w - r.size + r.cap) % r.cap
             supposedNewestElement == oldestElement + r.size
             factualNewestElement == Min(supposedNewestElement, r.cap)
             r1 == destruct(r, oldestElement, factualNewestElement)
             factualNewestElement2 == SizeT(supposedNewestElement - r.cap)
             r2 == IF factualNewestElement2 > 0
                   THEN destruct(r1, 0, factualNewestElement2)
                   ELSE r1
         IN  [r2 EXCEPT !.w = 0, !.size = 0]

\* reset() that clears the size and leaves the write position
reset_keepsPosition(r) ==
    IF r.size = 0 THEN r
    ELSE LET oldestElement == SizeT(r.w - r.size + r.cap) % r.cap
             supposedNewestElement == oldestElement + r.size
             factualNewestElement == Min(supposedNewestElement, r.cap)
             r1 == destruct(r, oldestElement, factualNewestElement)
             factualNewestElement2 == SizeT(supposedNewestElement - r.cap)
             r2 == IF factualNewestElement2 > 0
                   THEN destruct(r1, 0, factualNewestElement2)
                   ELSE r1
         IN  [r2 EXCEPT !.size = 0]

reset(r) ==
    IF r.size = 0 THEN r
    ELSE LET oldestElement == SizeT(r.w - r.size + r.cap) % r.cap
             supposedNewestElement == oldestElement + r.size
             factualNewestElement == Min(supposedNewestElement, r.cap)
             r1 == destruct(r, oldestElement, factualNewestElement)
             factualNewestElement2 == SizeT(supposedNewestElement - r.cap)
             r2 == IF factualNewestElement2 > 0
                   THEN destruct(r1, 0, factualNewestElement2)
                   ELSE r1
         IN  [r2 EXCEPT !.w = 0, !.size = 0]

\* customizedStorageDeleter_: destructs [0, min(size, capacity)), delete[]
customizedStorageDeleter(r) ==
    destruct(r, 0, Min(r.size, r.cap))

\* reset(newCapacity): reset(); capacity_ = newCapacity; buffer_.reset(new ...)
resetCapacity(r, newCapacity) ==
    LET r1 == reset(r)
        r2 == customizedStorageDeleter([r1 EXCEPT !.cap = newCapacity])
    IN  [r2 EXCEPT !.buf = NewStorage(newCapacity)]

\* reset(newCapacity) whose new ElementStorageType[newCapacity] throws
\* std::bad_alloc: reset() and capacity_ = newCapacity have run, the
\* argument of buffer_.reset(...) was never produced, the old storage stays
resetCapacityThrows(r, newCapacity) ==
    [reset(r) EXCEPT !.cap = newCapacity]

\* ~RingBuffer: reset(), then buffer_ runs its deleter
destroyRing(r) == customizedStorageDeleter(reset(r))

\* ------------------------------------------------------------ actions
NoCall == [op |-> "construct", arg |-> 0, dtor |-> <<>>, ctor |-> <<>>,
           faults |-> {}, ret |-> 0, dest |-> FreshDestination, reads |-> <<>>,
           again |-> FALSE, owned |-> FALSE, src |-> <<>>, moved |-> <<>>]

\* The call made now repeats the previous call: same operation, same
\* argument, nothing in between.  Recorded for copy and reset.
Repeats(op, arg) ==
    /\ op \in {"copy", "copyBlock", "reset"}
    /\ call.op = op
    /\ call.arg = arg
    /\ op = "reset" => history = <<>>

\* A call that ran into undefined behaviour either kills the process or
\* returns; nothing after it is defined, so the run ends there.
Outcomes(faults, normal) == IF faults = {} THEN {normal} ELSE {"crashed", "undefined"}

Mutation(r, op, arg, normal) ==
    /\ capacity_' = r.cap
    /\ currentSize_' = r.size
    /\ buffer_' = r.buf
    \* x % 0 does not trap on every target: where it returns, the result is
    \* the dividend or 0
    /\ writePosition_' \in (IF "modulo_zero" \in r.faults THEN {0, r.w + 1} ELSE {r.w})
    /\ status' \in Outcomes(r.faults, normal)
    /\ call' = [NoCall EXCEPT !.op = op, !.arg = arg, !.dtor = r.dtor,
                              !.ctor = r.ctor, !.faults = r.faults,
                              !.again = Repeats(op, arg),
                              !.owned = r.owned, !.src = r.src, !.moved = r.moved]
    /\ UNCHANGED threadVars

\* A thread that is in no call.
IdleProducer == [pc |-> "idle", ops |-> <<>>, size |-> 0, w |-> 0]
IdleConsumer == [pc |-> "idle", op |-> "none", arg |-> 0, cap |-> 0, size |-> 0,
                 w |-> 0, plan |-> <<>>, dest |-> FreshDestination, ret |-> 0,
                 reads |-> <<>>]

Init ==
    /\ capacity_ \in 0 .. MaxCap
    /\ writePosition_ = 0
    /\ currentSize_ = 0
    /\ buffer_ = NewStorage(capacity_)
    /\ status = "ok"
    /\ history = <<>>
    /\ nextVal = 1
    /\ call = NoCall
    /\ readPosition_ = 0
    /\ producer = IdleProducer
    /\ consumer = IdleConsumer

\* insert(sample), sample an owned temporary or a reference
Insert ==
    /\ status = "ok"
    /\ nextVal <= MaxTotal
    /\ \E owned \in BOOLEAN :
        Mutation(insertImpl(Offered(Ring, <<nextVal>>, owned), nextVal), "insert", 1, "ok")
    /\ history' = Append(history, nextVal)
    /\ nextVal' = nextVal + 1

\* insert(block, blockLength)
InsertBlock ==
    /\ status = "ok"
    /\ \E blockLength \in 0 .. MaxLen, owned \in BOOLEAN :
        /\ nextVal + blockLength - 1 <= MaxTotal
        /\ Mutation(insertBlockImpl(Offered(Ring, Block(nextVal, blockLength), owned),
                                    Block(nextVal, blockLength), blockLength),
                    "insertBlock", blockLength, "ok")
        /\ history' = history \o Block(nextVal, blockLength)
        /\ nextVal' = nextVal + blockLength

\* copy(samplesBackward)
Copy ==
    /\ status = "ok"
    /\ \E samplesBackward \in 0 .. MaxBack :
        LET x == copyElement(Ring, samplesBackward)
        IN  /\ status' \in Outcomes(x.faults, "ok")
            /\ \E got \in (IF x.faults = {} THEN {x.ret} ELSE 0 .. MaxTotal) :
                call' = [NoCall EXCEPT !.op = "copy", !.arg = samplesBackward,
                                       !.faults = x.faults, !.ret = got,
                                       !.reads = x.reads,
                                       !.again = Repeats("copy", samplesBackward)]
    /\ UNCHANGED <<ringVars, history, nextVal, threadVars>>

\* copy(destination, numberOfElements) that hands the storage to the
\* extraction as an rvalue: the elements are moved out, the slots keep
\* moved-from elements
CopyBlock_moving ==
    /\ status = "ok"
    /\ \E numberOfElements \in 0 .. MaxBack :
        LET x == extractBlockElements(Ring, numberOfElements)
        IN  /\ status' \in Outcomes(x.faults, "ok")
            /\ call' = [NoCall EXCEPT !.op = "copyBlock", !.arg = numberOfElements,
                                      !.faults = x.faults, !.ret = x.ret,
                                      !.dest = x.dest, !.reads = x.reads,
                                      !.again = Repeats("copyBlock", numberOfElements)]
            /\ buffer_' = [i \in DOMAIN buffer_ |->
                             IF \E j \in 1 .. Len(x.reads) : x.reads[j] = i
                             THEN [buffer_[i] EXCEPT !.val = DefaultElement]
                             ELSE buffer_[i]]
    /\ UNCHANGED <<capacity_, writePosition_, currentSize_, history, nextVal, threadVars>>

\* copy(destination, numberOfElements)
CopyBlock ==
    /\ status = "ok"
    /\ \E numberOfElements \in 0 .. MaxBack :
        LET x == extractBlockElements(Ring, numberOfElements)
        IN  /\ status' \in Outcomes(x.faults, "ok")
            /\ call' = [NoCall EXCEPT !.op = "copyBlock", !.arg = numberOfElements,
                                      !.faults = x.faults, !.ret = x.ret,
                                      !.dest = x.dest, !.reads = x.reads,
                                      !.again = Repeats("copyBlock", numberOfElements)]
    /\ UNCHANGED <<ringVars, history, nextVal, threadVars>>

\* insert(block, blockLength) with a block that fits the buffer
InsertFittingBlock ==
    /\ status = "ok"
    /\ \E blockLength \in 0 .. Min(MaxLen, capacity_), owned \in BOOLEAN :
        /\ nextVal + blockLength - 1 <= MaxTotal
        /\ Mutation(insertBlockImpl(Offered(Ring, Block(nextVal, blockLength), owned),
                                    Block(nextVal, blockLength), blockLength),
                    "insertBlock", blockLength, "ok")
        /\ history' = history \o Block(nextVal, blockLength)
        /\ nextVal' = nextVal + blockLength

\* reset()
Reset ==
    /\ status = "ok"
    /\ Mutation(reset(Ring), "reset", 0, "ok")
    /\ history' = <<>>
    /\ UNCHANGED nextVal

\* reset(newCapacity); the allocation succeeds or throws.  The exception
\* leaves the call and nothing in the repository catches it: the run ends.
ResetCapacity ==
    /\ status = "ok"
    /\ \E newCapacity \in 0 .. MaxCap, allocates \in BOOLEAN :
        IF allocates
        THEN Mutation(resetCapacity(Ring, newCapacity),
                      "resetCapacity", newCapacity, "ok")
        ELSE Mutation(resetCapacityThrows(Ring, newCapacity),
                      "resetCapacity", newCapacity, "bad_alloc")
    /\ history' = <<>>
    /\ UNCHANGED nextVal

\* ~RingBuffer()
Destroy ==
    /\ status = "ok"
    /\ Mutation(destroyRing(Ring), "destroy", 0, "destroyed")
    /\ history' = <<>>
    /\ UNCHANGED nextVal

Next ==
    \/ Insert
    \/ InsertBlock
    \/ Copy
    \/ CopyBlock
    \/ Reset
    \/ ResetCapacity
    \/ Destroy

Spec == Init /\ [][Next]_vars

\* ------------------------------------------- lock-free variant: insert
\* The storage accesses of an insert, in program order.  Which slots an
\* insert destructs and constructs depends only on the index values it
\* loaded, so the accesses are laid out when the call starts and carried
\* out one per step.
Destruction(i) == [k |-> "destruct", i |-> i, v |-> 0]
Construction(i, v) == [k |-> "construct", i |-> i, v |-> v]

\* destruct(from, to)
destructLF(from, to) == [j \in 1 .. to - from |-> Destruction(from + j - 1)]

\* insertImpl: the locals after the loads are p.size, p.w
insertImplLF(tmpCapacity, tmpCurrentSize, tmpWritePosition, sample) ==
    [ops |-> (IF tmpCurrentSize = tmpCapacity
              THEN <<Destruction(tmpWritePosition)>> ELSE <<>>)
             \o <<Construction(tmpWritePosition, sample)>>,
     size |-> IF tmpCurrentSize = tmpCapacity THEN tmpCurrentSize ELSE tmpCurrentSize + 1,
     w |-> IF tmpCapacity = 0 THEN tmpWritePosition + 1
           ELSE (tmpWritePosition + 1) % tmpCapacity,
     faults |-> IF tmpCapacity = 0 THEN {"modulo_zero"} ELSE {}]

\* insertBlockElements(source, sourceStart, destinationStart, number, capacity, currentSize&)
insertBlockElementsLF(p, source, sourceStart, destinationStart, number, capacity) ==
    [p EXCEPT
        !.ops = @ \o (IF p.size = capacity
                      THEN destructLF(destinationStart, destinationStart + number)
                      ELSE <<>>)
                  \o [j \in 1 .. number |->
                        Construction(destinationStart + j - 1, source[sourceStart + j])],
        !.size = IF p.size < capacity THEN Min(capacity, p.size + number) ELSE p.size,
        !.faults = sourceRange(p, sourceStart, number).faults]

\* insertBlockImpl whose second span continues in the source where the
\* first span ended
insertBlockImplLF_secondSpanContinues(tmpCapacity, tmpCurrentSize, tmpWritePosition, block, blockLength) ==
    LET p == [ops |-> <<>>, size |-> tmpCurrentSize, w |-> tmpWritePosition, faults |-> {}]
        adjustedBlockLength == IF blockLength > tmpCapacity THEN tmpCapacity ELSE blockLength
        split == (tmpWritePosition + adjustedBlockLength) > tmpCapacity
        pA == insertBlockElementsLF(p, block, blockLength - adjustedBlockLength,
                  tmpWritePosition, tmpCapacity - tmpWritePosition, tmpCapacity)
        pB == insertBlockElementsLF(pA, block,
                  blockLength - adjustedBlockLength + tmpCapacity - tmpWritePosition,
                  0, adjustedBlockLength - tmpCapacity + tmpWritePosition, tmpCapacity)
        pS == [pB EXCEPT !.w = adjustedBlockLength - tmpCapacity + tmpWritePosition]
        pC == insertBlockElementsLF(p, block, blockLength - adjustedBlockLength,
                  tmpWritePosition, adjustedBlockLength, tmpCapacity)
        pN == [pC EXCEPT !.w = tmpWritePosition + adjustedBlockLength]
        p3 == IF split THEN pS ELSE pN
    IN  IF p3.w > SizeT(tmpCapacity - 1) THEN [p3 EXCEPT !.w = 0] ELSE p3

insertBlockImplLF(tmpCapacity, tmpCurrentSize, tmpWritePosition, block, blockLength) ==
    LET p == [ops |-> <<>>, size |-> tmpCurrentSize, w |-> tmpWritePosition, faults |-> {}]
        adjustedBlockLength == IF blockLength > tmpCapacity THEN tmpCapacity ELSE blockLength
        split == (tmpWritePosition + adjustedBlockLength) > tmpCapacity
        pA == insertBlockElementsLF(p, block, blockLength - adjustedBlockLength,
                  tmpWritePosition, tmpCapacity - tmpWritePosition, tmpCapacity)
        pB == insertBlockElementsLF(pA, block, tmpCapacity - tmpWritePosition,
                  0, adjustedBlockLength - tmpCapacity + tmpWritePosition, tmpCapacity)
        pS == [pB EXCEPT !.w = adjustedBlockLength - tmpCapacity + tmpWritePosition]
        pC == insertBlockElementsLF(p, block, blockLength - adjustedBlockLength,
                  tmpWritePosition, adjustedBlockLength, tmpCapacity)
        pN == [pC EXCEPT !.w = tmpWritePosition + adjustedBlockLength]
        p3 == IF split THEN pS ELSE pN
    IN  IF p3.w > SizeT(tmpCapacity - 1) THEN [p3 EXCEPT !.w = 0] ELSE p3

\* ------------------------------------------ lock-free variant: extract
\* The slot reads of a copy, in program order, each with the destination
\* index it fills; laid out from the index values the call loaded.
Fetch(slot, off) == [slot |-> slot, off |-> off]

\* extractBlockElementsImpl(source, destination + offset, first, last)
extractBlockElementsImplLF(offset, first, last) ==
    [j \in 1 .. last - first |-> Fetch(first + j - 1, offset + j - 1)]

extractBlockElementsLF(tmpCurrentSize, tmpWritePosition, requested) ==
    LET numberOfElements == IF requested > tmpCurrentSize THEN tmpCurrentSize ELSE requested
        start == (tmpWritePosition + (tmpCurrentSize - numberOfElements)) % tmpCurrentSize
        size == IF (tmpCurrentSize - start) < numberOfElements
                THEN tmpCurrentSize - start ELSE numberOfElements
        numberOfRemaining == numberOfElements - size
        startOfRemaining == (start + size) % tmpCurrentSize
    IN  [ret |-> numberOfElements,
         plan |-> IF numberOfElements > 0
                  THEN extractBlockElementsImplLF(0, start, start + size)
                       \o (IF numberOfRemaining > 0
                           THEN extractBlockElementsImplLF(size, startOfRemaining,
                                    startOfRemaining + numberOfRemaining)
                           ELSE <<>>)
                  ELSE <<>>]

\* extractImpl(samplesBackward): the slot it reads
extractImplLF(tmpCapacity, tmpWritePosition, samplesBackward) ==
    SizeT(tmpWritePosition - 1 - (samplesBackward % tmpCapacity) + tmpCapacity) % tmpCapacity

\* ------------------------------------------------- producer thread steps
threadFrame == UNCHANGED <<call>>

\* insert(sample) of a queue that keeps what the reader has not passed: on
\* a full buffer whose write position has caught up with readPosition_ the
\* sample is dropped
ProducerInsert_yieldsToReader ==
    /\ status = "ok"
    /\ producer.pc = "idle"
    /\ nextVal <= MaxTotalLF
    /\ LET p == insertImplLF(capacity_, currentSize_, writePosition_, nextVal)
           kept == currentSize_ = capacity_ /\ readPosition_ = writePosition_
       IN  /\ producer' = IF kept
                          THEN [pc |-> "storage", ops |-> <<>>, size |-> currentSize_,
                                w |-> writePosition_]
                          ELSE [pc |-> "storage", ops |-> p.ops, size |-> p.size, w |-> p.w]
           /\ status' \in Outcomes(IF kept THEN {} ELSE p.faults, "ok")
    /\ history' = Append(history, nextVal)
    /\ nextVal' = nextVal + 1
    /\ UNCHANGED <<ringVars, readPosition_, consumer>>
    /\ threadFrame

\* insert(sample): the four loads.  The producer is the only writer of
\* capacity_, currentSize_ and writePosition_, so it loads its own last
\* stores; the value loaded from readPosition_ is not used.
ProducerInsert ==
    /\ status = "ok"
    /\ producer.pc = "idle"
    /\ nextVal <= MaxTotalLF
    /\ LET p == insertImplLF(capacity_, currentSize_, writePosition_, nextVal)
       IN  /\ producer' = [pc |-> "storage", ops |-> p.ops, size |-> p.size, w |-> p.w]
           /\ status' \in Outcomes(p.faults, "ok")
    /\ history' = Append(history, nextVal)
    /\ nextVal' = nextVal + 1
    /\ UNCHANGED <<ringVars, readPosition_, consumer>>
    /\ threadFrame

\* insert(block, blockLength): the four loads
ProducerInsertBlock ==
    /\ status = "ok"
    /\ producer.pc = "idle"
    /\ \E blockLength \in 1 .. MaxChunk :
        /\ nextVal + blockLength - 1 <= MaxTotalLF
        /\ LET p == insertBlockImplLF(capacity_, currentSize_, writePosition_,
                                      Block(nextVal, blockLength), blockLength)
           IN  producer' = [pc |-> "storage", ops |-> p.ops, size |-> p.size, w |-> p.w]
        /\ history' = history \o Block(nextVal, blockLength)
        /\ nextVal' = nextVal + blockLength
    /\ UNCHANGED <<ringVars, readPosition_, consumer, status>>
    /\ threadFrame

\* one ~Element() or one placement new
ProducerStorage ==
    /\ status = "ok"
    /\ producer.pc = "storage"
    /\ producer.ops # <<>>
    /\ LET o == Head(producer.ops)
           r == IF o.k = "destruct"
                THEN destructElement(Ring, o.i)
                ELSE constructElement(Ring, o.i, o.v)
       IN  /\ buffer_' = r.buf
           /\ status' \in Outcomes(r.faults, "ok")
    /\ producer' = [producer EXCEPT !.ops = Tail(@)]
    /\ UNCHANGED <<capacity_, writePosition_, currentSize_, readPosition_, consumer,
                   history, nextVal>>
    /\ threadFrame

\* currentSize_.store placed before the storage is written
ProducerStoreSize_early ==
    /\ status = "ok"
    /\ producer.pc = "storage"
    /\ currentSize_' = producer.size
    /\ producer' = [producer EXCEPT !.pc = "storeWrite"]
    /\ UNCHANGED <<capacity_, writePosition_, buffer_, readPosition_, consumer,
                   history, nextVal, status>>
    /\ threadFrame

\* currentSize_.store(tmpCurrentSize, release)
ProducerStoreSize ==
    /\ status = "ok"
    /\ producer.pc = "storage"
    /\ producer.ops = <<>>
    /\ currentSize_' = producer.size
    /\ producer' = [producer EXCEPT !.pc = "storeWrite"]
    /\ UNCHANGED <<capacity_, writePosition_, buffer_, readPosition_, consumer,
                   history, nextVal, status>>
    /\ threadFrame

\* insert that also publishes its write position through readPosition_
ProducerStoreWrite_storesReadToo ==
    /\ status = "ok"
    /\ producer.pc = "storeWrite"
    /\ writePosition_' = producer.w
    /\ readPosition_' = producer.w
    /\ producer' = IdleProducer
    /\ UNCHANGED <<capacity_, currentSize_, buffer_, consumer,
                   history, nextVal, status>>
    /\ threadFrame

\* writePosition_.store(tmpWritePosition, release)
ProducerStoreWrite ==
    /\ status = "ok"
    /\ producer.pc = "storeWrite"
    /\ writePosition_' = producer.w
    /\ producer' = IdleProducer
    /\ UNCHANGED <<capacity_, currentSize_, buffer_, readPosition_, consumer,
                   history, nextVal, status>>
    /\ threadFrame

\* ------------------------------------------------- consumer thread steps
\* The producer is in the middle of overwriting slot i: it has destructed
\* the occupant and not yet constructed the new element.
InFlight(i) ==
    /\ producer.pc = "storage"
    /\ i \in DOMAIN buffer_
    /\ buffer_[i].live = 0
    /\ buffer_[i].val # 0
    /\ \E j \in 1 .. Len(producer.ops) :
          producer.ops[j].k = "construct" /\ producer.ops[j].i = i

\* copy(destination, numberOfElements) is entered
ConsumerCopyBlock ==
    /\ status = "ok"
    /\ consumer.pc = "idle"
    /\ \E numberOfElements \in 0 .. MaxAsk :
        consumer' = [IdleConsumer EXCEPT !.pc = "loadSize", !.op = "copyBlock",
                                         !.arg = numberOfElements]
    /\ UNCHANGED <<ringVars, readPosition_, producer, history, nextVal, status>>
    /\ threadFrame

\* copy(samplesBackward) is entered: capacity_.load(relaxed)
ConsumerCopy ==
    /\ status = "ok"
    /\ consumer.pc = "idle"
    /\ \E samplesBackward \in 0 .. MaxAsk :
        consumer' = [IdleConsumer EXCEPT !.pc = "loadSize", !.op = "copy",
                                         !.arg = samplesBackward, !.cap = capacity_]
    /\ UNCHANGED <<ringVars, readPosition_, producer, history, nextVal, status>>
    /\ threadFrame

\* currentSize_.load(acquire)
ConsumerLoadSize ==
    /\ status = "ok"
    /\ consumer.pc = "loadSize"
    /\ consumer' = [consumer EXCEPT !.pc = "loadWrite", !.size = currentSize_]
    /\ UNCHANGED <<ringVars, readPosition_, producer, history, nextVal, status>>
    /\ threadFrame

\* extractImpl that tests the capacity, not the size, before it reads
ConsumerLoadWrite_guardsCapacity ==
    /\ status = "ok"
    /\ consumer.pc = "loadWrite"
    /\ consumer' =
          IF consumer.op = "copyBlock"
          THEN LET x == extractBlockElementsLF(consumer.size, writePosition_, consumer.arg)
               IN  [consumer EXCEPT !.pc = "read", !.w = writePosition_,
                                    !.plan = x.plan, !.ret = x.ret]
          ELSE IF consumer.cap = 0
               THEN [consumer EXCEPT !.pc = "idle", !.w = writePosition_,
                                     !.ret = DefaultElement]
               ELSE [consumer EXCEPT !.pc = "read", !.w = writePosition_,
                        !.plan = <<Fetch(extractImplLF(consumer.cap, writePosition_,
                                                       consumer.arg), 0)>>]
    /\ UNCHANGED <<ringVars, readPosition_, producer, history, nextVal, status>>
    /\ threadFrame

\* a copy that computes with the write position it stored into
\* readPosition_ last time instead of loading writePosition_
ConsumerLoadWrite_staleCursor ==
    /\ status = "ok"
    /\ consumer.pc = "loadWrite"
    /\ consumer' =
          IF consumer.op = "copyBlock"
          THEN LET x == extractBlockElementsLF(consumer.size, readPosition_, consumer.arg)
               IN  [consumer EXCEPT !.pc = "read", !.w = readPosition_,
                                    !.plan = x.plan, !.ret = x.ret]
          ELSE IF consumer.size = 0
               THEN [consumer EXCEPT !.pc = "idle", !.w = readPosition_,
                                     !.ret = DefaultElement]
               ELSE [consumer EXCEPT !.pc = "read", !.w = readPosition_,
                        !.plan = <<Fetch(extractImplLF(consumer.cap, readPosition_,
                                                       consumer.arg), 0)>>]
    /\ UNCHANGED <<ringVars, readPosition_, producer, history, nextVal, status>>
    /\ threadFrame

\* writePosition_.load(acquire), and the index arithmetic that follows
ConsumerLoadWrite ==
    /\ status = "ok"
    /\ consumer.pc = "loadWrite"
    /\ consumer' =
          IF consumer.op = "copyBlock"
          THEN LET x == extractBlockElementsLF(consumer.size, writePosition_, consumer.arg)
               IN  [consumer EXCEPT !.pc = "read", !.w = writePosition_,
                                    !.plan = x.plan, !.ret = x.ret]
          ELSE IF consumer.size = 0
               THEN [consumer EXCEPT !.pc = "idle", !.w = writePosition_,
                                     !.ret = DefaultElement]
               ELSE [consumer EXCEPT !.pc = "read", !.w = writePosition_,
                        !.plan = <<Fetch(extractImplLF(consumer.cap, writePosition_,
                                                       consumer.arg), 0)>>]
    /\ UNCHANGED <<ringVars, readPosition_, producer, history, nextVal, status>>
    /\ threadFrame

\* one element is copied out of the storage.  A slot without a live
\* element holds no value: the copy yields anything, or faults.
ConsumerRead ==
    /\ status = "ok"
    /\ consumer.pc = "read"
    /\ consumer.plan # <<>>
    /\ LET f == Head(consumer.plan)
           x == readElement(buffer_, Extraction, f.slot)
       IN  /\ status' \in Outcomes(x.faults, "ok")
           /\ \E got \in (IF x.faults = {} THEN {x.ret} ELSE 0 .. MaxTotalLF) :
                consumer' = [consumer EXCEPT
                    !.plan = Tail(@),
                    !.dest[f.off] = got,
                    !.ret = IF consumer.op = "copy" THEN got ELSE @,
                    !.reads = Append(@, [slot |-> f.slot,
                                         made |-> f.slot \in DOMAIN buffer_
                                                  /\ buffer_[f.slot].val # 0,
                                         busy |-> InFlight(f.slot)])]
    /\ UNCHANGED <<ringVars, readPosition_, producer, history, nextVal>>
    /\ threadFrame

\* readPosition_.store(tmpWritePosition, release); return
ConsumerStoreRead ==
    /\ status = "ok"
    /\ consumer.pc = "read"
    /\ consumer.plan = <<>>
    /\ readPosition_' = consumer.w
    /\ consumer' = [consumer EXCEPT !.pc = "idle"]
    /\ UNCHANGED <<ringVars, producer, history, nextVal, status>>
    /\ threadFrame

\* reset() of the lock-free variant, called while neither thread is inside
\* an insert or a copy.  Its loads, index arithmetic and destruct calls are
\* those of the sequential reset(); it returns before the three stores
\* when the size it loaded is 0.
ResetLF ==
    /\ status = "ok"
    /\ producer.pc = "idle"
    /\ consumer.pc = "idle"
    /\ LET r == reset(Ring)
       IN  /\ capacity_' = r.cap
           /\ writePosition_' = r.w
           /\ currentSize_' = r.size
           /\ buffer_' = r.buf
           /\ readPosition_' = IF currentSize_ = 0 THEN readPosition_ ELSE 0
           /\ status' \in Outcomes(r.faults, "ok")
           /\ call' = [NoCall EXCEPT !.op = "reset", !.dtor = r.dtor, !.ctor = r.ctor,
                                     !.faults = r.faults, !.again = Repeats("reset", 0)]
    /\ history' = <<>>
    /\ UNCHANGED <<nextVal, producer, consumer>>

InitLF ==
    /\ capacity_ \in 0 .. MaxCapLF
    /\ writePosition_ = 0
    /\ currentSize_ = 0
    /\ buffer_ = NewStorage(capacity_)
    /\ status = "ok"
    /\ history = <<>>
    /\ nextVal = 1
    /\ call = NoCall
    /\ readPosition_ = 0
    /\ producer = IdleProducer
    /\ consumer = IdleConsumer

NextLF ==
    \/ ProducerInsert
    \/ ProducerInsertBlock
    \/ ProducerStorage
    \/ ProducerStoreSize
    \/ ProducerStoreWrite
    \/ ConsumerCopyBlock
    \/ ConsumerCopy
    \/ ConsumerLoadSize
    \/ ConsumerLoadWrite
    \/ ConsumerRead
    \/ ConsumerStoreRead
    \/ ResetLF

SpecLF == InitLF /\ [][NextLF]_vars

\* readPosition_ holds some other value: a store of the consumer that the
\* model's runs do not produce at this point.  Nothing else changes.
StaleReadCursor ==
    /\ status = "ok"
    /\ \E position \in 0 .. MaxCapLF :
        /\ position # readPosition_
        /\ readPosition_' = position
    /\ UNCHANGED <<ringVars, producer, consumer, history, nextVal, status>>
    /\ threadFrame

\* The two threads with readPosition_ holding any value at any time.
NextAdvisory ==
    \/ NextLF
    \/ StaleReadCursor

SpecAdvisory == InitLF /\ [][NextAdvisory]_vars

\* ------------------------------------------------- legacy variant
\* The earlier RingBuffer with moveLast / moveBlock / copyBlock.  Its
\* insertImpl, insertBlockElements, insertBlockImpl and extractBlockElements
\* are those of the sequential variant, statement for statement.

\* recalculatePositionAfterMoving(movedSamples)
recalculatePositionAfterMoving(r, movedSamples) ==
    IF r.cap = 0
    THEN [r EXCEPT !.size = SizeT(@ - movedSamples),
                   !.faults = @ \cup {"modulo_zero"}]
    ELSE [r EXCEPT !.w = SizeT(r.w - movedSamples + r.cap) % r.cap,
                   !.size = SizeT(@ - movedSamples)]

\* the storage after the elements of the slots read were moved out: the
\* slots keep moved-from elements, nothing is destructed
movedOut(buf, reads) ==
    [i \in DOMAIN buf |->
        IF \E j \in 1 .. Len(reads) : reads[j] = i
        THEN [buf[i] EXCEPT !.val = MovedFrom]
        ELSE buf[i]]

\* moveBlock(destination, numberOfElements)
moveBlock(r, numberOfElements) ==
    LET x == extractBlockElements(r, numberOfElements)
    IN  [ring |-> recalculatePositionAfterMoving(
                      [r EXCEPT !.buf = movedOut(r.buf, x.reads),
                                !.faults = @ \cup x.faults], x.ret),
         out |-> x]

\* moveLast(): the caller takes the element out of the returned Element&&
moveLast(r) ==
    LET position == SizeT(r.w - 1 + r.cap) % r.cap
        x == readElement(r.buf, Extraction, position)
    IN  [ring |-> recalculatePositionAfterMoving(
                      [r EXCEPT !.buf = movedOut(r.buf, x.reads),
                                !.faults = @ \cup x.faults], 1),
         out |-> x]

\* Constructing over a moved-from element that was never destructed loses
\* that element without a destructor call; the call itself goes on.
LegacyEffect(r, x, op, arg) ==
    /\ capacity_' = r.cap
    /\ currentSize_' = r.size
    /\ buffer_' = r.buf
    /\ writePosition_' \in (IF "modulo_zero" \in r.faults THEN {0, r.w + 1} ELSE {r.w})
    /\ status' \in Outcomes(r.faults \ {"construct_live"}, "ok")
    /\ call' = [NoCall EXCEPT !.op = op, !.arg = arg, !.dtor = r.dtor,
                              !.ctor = r.ctor, !.faults = r.faults,
                              !.ret = x.ret, !.dest = x.dest, !.reads = x.reads]
    /\ UNCHANGED threadVars

\* insert(sample)
LegacyInsert ==
    /\ status = "ok"
    /\ nextVal <= MaxTotal
    /\ LegacyEffect(insertImpl(Ring, nextVal), Extraction, "insert", 1)
    /\ history' = Append(history, nextVal)
    /\ nextVal' = nextVal + 1

\* insert(block, blockLength)
LegacyInsertBlock ==
    /\ status = "ok"
    /\ \E blockLength \in 0 .. MaxLen :
        /\ nextVal + blockLength - 1 <= MaxTotal
        /\ LegacyEffect(insertBlockImpl(Ring, Block(nextVal, blockLength), blockLength),
                        Extraction, "insertBlock", blockLength)
        /\ history' = history \o Block(nextVal, blockLength)
        /\ nextVal' = nextVal + blockLength

\* copyBlock(destination, numberOfElements)
LegacyCopyBlock ==
    /\ status = "ok"
    /\ \E numberOfElements \in 0 .. MaxBack :
        LegacyEffect(Ring, extractBlockElements(Ring, numberOfElements),
                     "copyBlock", numberOfElements)
    /\ UNCHANGED <<history, nextVal>>

\* moveLast(); assert(currentSize_ != 0) is the caller's obligation.
\* history keeps the elements not moved out.
LegacyMoveLast ==
    /\ status = "ok"
    /\ currentSize_ # 0
    /\ LET m == moveLast(Ring)
       IN  LegacyEffect(m.ring, m.out, "moveLast", 0)
    /\ history' = SubSeq(history, 1, Len(history) - 1)
    /\ UNCHANGED nextVal

\* moveBlock(destination, numberOfElements)
LegacyMoveBlock ==
    /\ status = "ok"
    /\ \E numberOfElements \in 0 .. MaxBack :
        LET m == moveBlock(Ring, numberOfElements)
        IN  /\ LegacyEffect(m.ring, m.out, "moveBlock", numberOfElements)
            /\ history' = SubSeq(history, 1, Len(history) - m.out.ret)
    /\ UNCHANGED nextVal

NextLegacy ==
    \/ LegacyInsert
    \/ LegacyInsertBlock
    \/ LegacyCopyBlock
    \/ LegacyMoveLast
    \/ LegacyMoveBlock

SpecLegacy == Init /\ [][NextLegacy]_vars

\* ------------------------- lock-free variant driven by a single thread
\* With one thread calling, every call of the lock-free variant runs from
\* its loads to its last store without another access in between.

\* the storage accesses of an insert, carried out in program order
RECURSIVE applyStorage(_, _)
applyStorage(r, ops) ==
    IF ops = <<>> THEN r
    ELSE LET o == Head(ops)
         IN  applyStorage(IF o.k = "destruct"
                          THEN destructElement(r, o.i)
                          ELSE constructElement(r, o.i, o.v),
                          Tail(ops))

\* the slot reads of a copy, carried out in program order
RECURSIVE fetchAll(_, _, _)
fetchAll(buf, x, plan) ==
    IF plan = <<>> THEN x
    ELSE LET f == Head(plan)
             x1 == readElement(buf, x, f.slot)
         IN  fetchAll(buf, [x1 EXCEPT !.dest[f.off] = x1.ret], Tail(plan))

\* the ring after the loads, storage accesses and two stores of an insert
stored(r, p) ==
    [applyStorage(r, p.ops) EXCEPT
        !.size = p.size,
        !.w = IF "modulo_zero" \in p.faults THEN r.w ELSE p.w,
        !.faults = @ \cup p.faults]

\* capacity_, currentSize_, writePosition_, buffer_ and the call's record
\* after a call of the lock-free variant; readPosition_ as the call left it
SoloEffect(r, op, arg, position) ==
    /\ capacity_' = r.cap
    /\ currentSize_' = r.size
    /\ buffer_' = r.buf
    /\ writePosition_' \in (IF "modulo_zero" \in r.faults THEN {0, r.w + 1} ELSE {r.w})
    /\ readPosition_' = position
    /\ status' \in Outcomes(r.faults, "ok")
    /\ call' = [NoCall EXCEPT !.op = op, !.arg = arg, !.dtor = r.dtor,
                              !.ctor = r.ctor, !.faults = r.faults]
    /\ UNCHANGED <<producer, consumer>>

\* what a copy of the lock-free variant hands back
SoloResult(x, op, arg, position) ==
    /\ status' \in Outcomes(x.faults, "ok")
    /\ \E got \in (IF x.faults = {} THEN {x.ret} ELSE 0 .. MaxTotal) :
          call' = [NoCall EXCEPT !.op = op, !.arg = arg, !.faults = x.faults,
                                 !.ret = got, !.dest = x.dest, !.reads = x.reads]
    /\ readPosition_' = position
    /\ UNCHANGED <<ringVars, history, nextVal, producer, consumer>>

\* insert(sample)
SoloInsert ==
    /\ status = "ok"
    /\ nextVal <= MaxTotal
    /\ SoloEffect(stored(Ring, insertImplLF(capacity_, currentSize_, writePosition_,
                                            nextVal)),
                  "insert", 1, readPosition_)
    /\ history' = Append(history, nextVal)
    /\ nextVal' = nextVal + 1

\* insert(block, blockLength)
SoloInsertBlock ==
    /\ status = "ok"
    /\ \E blockLength \in 0 .. MaxLen :
        /\ nextVal + blockLength - 1 <= MaxTotal
        /\ SoloEffect(stored(Ring, insertBlockImplLF(capacity_, currentSize_,
                                       writePosition_, Block(nextVal, blockLength),
                                       blockLength)),
                      "insertBlock", blockLength, readPosition_)
        /\ history' = history \o Block(nextVal, blockLength)
        /\ nextVal' = nextVal + blockLength

\* copy(samplesBackward): extractImpl
SoloCopy ==
    /\ status = "ok"
    /\ \E samplesBackward \in 0 .. MaxBack :
        IF currentSize_ = 0
        THEN SoloResult([Extraction EXCEPT !.ret = DefaultElement],
                        "copy", samplesBackward, readPosition_)
        ELSE SoloResult(readElement(buffer_, Extraction,
                            extractImplLF(capacity_, writePosition_, samplesBackward)),
                        "copy", samplesBackward, writePosition_)

\* copy(destination, numberOfElements): extractBlockElements
SoloCopyBlock ==
    /\ status = "ok"
    /\ \E numberOfElements \in 0 .. MaxBack :
        LET x == extractBlockElementsLF(currentSize_, writePosition_, numberOfElements)
        IN  SoloResult([fetchAll(buffer_, Extraction, x.plan) EXCEPT !.ret = x.ret],
                       "copyBlock", numberOfElements, writePosition_)

\* reset()
SoloReset ==
    /\ status = "ok"
    /\ SoloEffect(reset(Ring), "reset", 0,
                  IF currentSize_ = 0 THEN readPosition_ ELSE 0)
    /\ history' = <<>>
    /\ UNCHANGED nextVal

\* reset(newCapacity)
SoloResetCapacity ==
    /\ status = "ok"
    /\ \E newCapacity \in 0 .. MaxCap :
        SoloEffect(resetCapacity(Ring, newCapacity), "resetCapacity", newCapacity,
                   IF currentSize_ = 0 THEN readPosition_ ELSE 0)
    /\ history' = <<>>
    /\ UNCHANGED nextVal

NextSolo ==
    \/ SoloInsert
    \/ SoloInsertBlock
    \/ SoloCopy
    \/ SoloCopyBlock
    \/ SoloReset
    \/ SoloResetCapacity

SpecSolo == Init /\ [][NextSolo]_vars

\* The two threads taking turns: an insert is entered only while no copy
\* runs, a copy only after the last insert has made both of its stores.
QuietInsert == consumer.pc = "idle" /\ ProducerInsert
QuietInsertBlock == consumer.pc = "idle" /\ ProducerInsertBlock
QuietCopy == producer.pc = "idle" /\ ConsumerCopy
QuietCopyBlock == producer.pc = "idle" /\ ConsumerCopyBlock

NextQuiet ==
    \/ QuietInsert
    \/ QuietInsertBlock
    \/ ProducerStorage
    \/ ProducerStoreSize
    \/ ProducerStoreWrite
    \/ QuietCopy
    \/ QuietCopyBlock
    \/ ConsumerLoadSize
    \/ ConsumerLoadWrite
    \/ ConsumerRead
    \/ ConsumerStoreRead
    \/ ResetLF

SpecQuiet == InitLF /\ [][NextQuiet]_vars

\* The two threads of the repository's concurrency test: the producer only
\* bulk-inserts chunks, the consumer only bulk-copies.
NextChunks ==
    \/ ProducerInsertBlock
    \/ ProducerStorage
    \/ ProducerStoreSize
    \/ ProducerStoreWrite
    \/ ConsumerCopyBlock
    \/ ConsumerLoadSize
    \/ ConsumerLoadWrite
    \/ ConsumerRead
    \/ ConsumerStoreRead

SpecChunks == InitLF /\ [][NextChunks]_vars

\* Single-element use only: construct, then insert(sample) and
\* copy(samplesBackward) in any order.
NextSingle ==
    \/ Insert
    \/ Copy

SpecSingle == Init /\ [][NextSingle]_vars

\* Bulk use with blocks no longer than the capacity: construct, then
\* insert(block, blockLength <= capacity), copy(samplesBackward) and
\* copy(destination, numberOfElements) in any order.
NextBulk ==
    \/ InsertFittingBlock
    \/ Copy
    \/ CopyBlock

SpecBulk == Init /\ [][NextBulk]_vars

\* ------------------------------------------------------------- claims
\* The last call returned (it did not end the process).
Completed == status \in {"ok", "undefined", "destroyed"}

\* The slots the index state declares occupied.
OccupiedRange(cap, w, size) ==
    IF cap = 0 THEN {}
    ELSE {SizeT(w - size + cap + j) % cap : j \in 0 .. size - 1}

\* Inserting the elements of block one at a time, in order.
RECURSIVE insertEach(_, _, _)
insertEach(r, block, j) ==
    IF j > Len(block) THEN r
    ELSE insertEach(insertImpl(r, block[j]), block, j + 1)

\* A ring with the given index state and storage, no call in progress.
RingOf(cap, w, size, buf) ==
    [cap |-> cap, w |-> w, size |-> size, buf |-> buf,
     dtor |-> <<>>, ctor |-> <<>>, faults |-> {},
     owned |-> FALSE, src |-> <<>>, moved |-> <<>>]

\* The stored elements read oldest-to-newest.
Contents(cap, w, size, buf) ==
    [j \in 1 .. size |-> buf[SizeT(w - size + cap + j - 1) % cap].val]

\* C1: after N single-element inserts into a freshly constructed buffer of
\* capacity C > 0, copy(i) for 0 <= i < min(N, C) returns the (N-1-i)-th
\* inserted element, and no copy(i) returns an element older than the last
\* C inserts.
C1_OverwriteOrder ==
    (capacity_ > 0 /\ Len(history) >= 1) =>
        /\ \A i \in 0 .. Min(Len(history), capacity_) - 1 :
              /\ copyElement(Ring, i).faults = {}
              /\ copyElement(Ring, i).ret = history[Len(history) - i]
        /\ \A i \in 0 .. MaxBack :
              \A j \in 1 .. Len(history) - capacity_ :
                  copyElement(Ring, i).ret # history[j]
        /\ (call.op = "copy" /\ call.arg < Min(Len(history), capacity_)) =>
              call.ret = history[Len(history) - call.arg]
        /\ call.op = "copy" =>
              \A j \in 1 .. Len(history) - capacity_ : call.ret # history[j]

C1_Witness ==
    /\ capacity_ > 1
    /\ Len(history) > capacity_
    /\ call.op = "copy"
    /\ call.arg = capacity_ - 1
    /\ call.ret = history[Len(history) - capacity_ + 1]
    /\ status = "ok"

\* C2: currentSize() <= capacity() in every state reachable by construct,
\* insert, bulk insert, copy, reset() and reset(newCapacity).
C2_SizeBound == currentSize_ <= capacity_

C2_Witness ==
    /\ call.op = "insertBlock"
    /\ call.arg > capacity_
    /\ capacity_ > 0
    /\ currentSize_ = capacity_
    /\ Len(history) > call.arg

\* C3: for capacity C > 0, after k >= 1 elements were inserted (single or
\* bulk) since construction or the last reset, currentSize() = min(C, k).
C3_SizeTracksInserts ==
    (capacity_ > 0 /\ Len(history) >= 1) =>
        currentSize_ = Min(capacity_, Len(history))

C3_Witness ==
    /\ call.op = "insertBlock"
    /\ capacity_ > 0
    /\ Len(history) > call.arg
    /\ call.arg > 0
    /\ Len(history) < capacity_
    /\ currentSize_ = Len(history)

\* C4: from every reachable state and for every block length L, including
\* L > capacity, insert(block, L) leaves the same size, writeCursor and
\* contents as inserting the same L elements one at a time in order.
C4_BulkEqualsSingles ==
    [][(call'.op = "insertBlock" /\ capacity_ > 0) =>
        LET block == Block(nextVal, call'.arg)
            one == insertEach(Ring, block, 1)
        IN  /\ currentSize_' = one.size
            /\ Contents(capacity_', writePosition_', currentSize_', buffer_')
                 = Contents(one.cap, one.w, one.size, one.buf)]_vars

\* C5: copy(destination, k) returns n = min(k, currentSize()) and writes
\* to destination[0 .. n-1] the n most recently inserted elements, oldest
\* of them first.
C5_BulkCopyResult ==
    (call.op = "copyBlock" /\ status = "ok") =>
        LET n == Min(call.arg, currentSize_)
        IN  /\ call.ret = n
            /\ \A j \in 0 .. n - 1 :
                  call.dest[j] = history[Len(history) - n + j + 1]

\* C6: with one producer inserting consecutive chunks of an increasing
\* sequence and one consumer calling copy(destination, k), under every
\* interleaving every non-empty result is a contiguous, order-preserved run
\* of the inserted sequence.
C6_ContiguousRuns ==
    (consumer.op = "copyBlock" /\ consumer.pc = "idle" /\ consumer.ret > 0 /\ Completed) =>
        /\ \A j \in 0 .. consumer.ret - 1 : consumer.dest[j] \in 1 .. nextVal - 1
        /\ \A j \in 0 .. consumer.ret - 2 : consumer.dest[j + 1] = consumer.dest[j] + 1

\* C7: every slot a consumer operation reads (bulk copy, or
\* copy(samplesBackward) with samplesBackward below the size it loaded) is
\* a slot into which some insert has already constructed an element.
C7_ReadsConstructedSlots ==
    (consumer.op = "copyBlock" \/ (consumer.op = "copy" /\ consumer.arg < consumer.size)) =>
        \A j \in 1 .. Len(consumer.reads) : consumer.reads[j].made

\* C8: whenever the consumer reads slot i during a copy, the producer is
\* not in the middle of destructing or constructing slot i.
C8_NoReadWriteRace ==
    \A j \in 1 .. Len(consumer.reads) : ~consumer.reads[j].busy

\* C9: after every completed operation the slots holding a live element
\* are exactly the size slots ending at writeCursor - 1 (circularly), one
\* element each, and every other slot holds none.
C9_OccupancyExact ==
    Completed =>
        \A i \in DOMAIN buffer_ :
            buffer_[i].live =
                (IF i \in OccupiedRange(capacity_, writePosition_, currentSize_)
                 THEN 1 ELSE 0)

\* C10: reset() and destruction destruct exactly the occupied slots, each
\* exactly once, and touch no free slot and no index outside [0, capacity).
C10_ResetDestructsOccupiedOnce ==
    [][(call'.op \in {"reset", "destroy"}) =>
        LET occ == OccupiedRange(capacity_, writePosition_, currentSize_)
        IN  /\ Len(call'.dtor) = Cardinality(occ)
            /\ {call'.dtor[j] : j \in 1 .. Len(call'.dtor)} = occ]_vars

\* The step is a call of reset(): the threads' own steps leave the call
\* record alone and move a thread.
ResetStep ==
    /\ call'.op = "reset"
    /\ producer' = producer
    /\ consumer' = consumer

\* C11: from every reachable state reset() returns, and then size = 0,
\* writeCursor = 0, readCursor = 0 and the capacity is what it was.
C11_ResetPostcondition ==
    [][ResetStep =>
        /\ status' = "ok"
        /\ currentSize_' = 0
        /\ writePosition_' = 0
        /\ readPosition_' = 0
        /\ capacity_' = capacity_]_vars

\* C12: from every reachable state and for every newCapacity >= 0,
\* reset(newCapacity) whose allocation succeeds returns, and then
\* currentSize() = 0, capacity() = newCapacity and writeCursor = 0.
C12_ResizeClears ==
    [][(call'.op = "resetCapacity" /\ status' # "bad_alloc") =>
        /\ status' = "ok"
        /\ currentSize_' = 0
        /\ capacity_' = call'.arg
        /\ writePosition_' = 0]_vars

\* What a caller can tell of a ring: the index state, the elements it
\* holds oldest-to-newest, which slots hold a live element, and whether the
\* call that produced it was defined.
Observable(r) ==
    [cap |-> r.cap, w |-> r.w, size |-> r.size,
     contents |-> IF r.cap = 0 THEN <<>> ELSE Contents(r.cap, r.w, r.size, r.buf),
     live |-> [i \in DOMAIN r.buf |-> r.buf[i].live],
     faults |-> r.faults]

\* C13: after reset() or reset(n) has returned, the buffer is
\* indistinguishable from a freshly constructed buffer of the same capacity:
\* same size and cursor, no live element, and every insert, bulk insert and
\* copy made next gives the same result on both.
C13_FreshAfterReset ==
    (call.op \in {"reset", "resetCapacity"} /\ Completed) =>
        LET fresh == construct(capacity_)
        IN  /\ Observable(Ring) = Observable(fresh)
            /\ Observable(insertImpl(Ring, nextVal))
                 = Observable(insertImpl(fresh, nextVal))
            /\ \A len \in 0 .. MaxLen :
                  Observable(insertBlockImpl(Ring, Block(nextVal, len), len))
                   = Observable(insertBlockImpl(fresh, Block(nextVal, len), len))
            /\ \A i \in 0 .. MaxBack :
                  copyElement(Ring, i).ret = copyElement(fresh, i).ret

\* C14: reset() on an empty buffer changes nothing (capacity, writeCursor,
\* size, readCursor, every slot); and a reset() that follows a reset()
\* leaves the state the first one left.
C14_ResetIdempotent ==
    [][ResetStep =>
        /\ (currentSize_ = 0 \/ call'.again) =>
              /\ status' = "ok"
              /\ call'.dtor = <<>>
              /\ UNCHANGED <<ringVars, readPosition_>>
        /\ status' # "crashed" =>
              LET twice == reset(RingOf(capacity_', writePosition_',
                                        currentSize_', buffer_'))
              IN  /\ twice.faults = {}
                  /\ twice.dtor = <<>>
                  /\ twice.cap = capacity_'
                  /\ twice.w = writePosition_'
                  /\ twice.size = currentSize_'
                  /\ twice.buf = buffer_']_vars

C14_Witness ==
    /\ call.op = "reset"
    /\ call.again
    /\ status = "ok"
    /\ capacity_ > 0
    /\ nextVal > 1

\* C15: on a buffer of capacity 0 every insert, single or bulk of any
\* length, completes without fault, writes no slot and leaves size = 0 and
\* writeCursor = 0.
C15_CapacityZeroNoOp ==
    [][(capacity_ = 0 /\ call'.op \in {"insert", "insertBlock"}) =>
        /\ status' = "ok"
        /\ call'.faults = {}
        /\ call'.ctor = <<>>
        /\ call'.dtor = <<>>
        /\ currentSize_' = 0
        /\ writePosition_' = 0]_vars

\* C16: a bulk insert of L > C elements into an empty buffer of capacity
\* C > 0 leaves currentSize() = C and copy(i) = block[L-1-i] for every
\* 0 <= i < C, the size and contents that inserting the L elements one at
\* a time leaves.
C16_OversizedIntoEmpty ==
    [][(call'.op = "insertBlock" /\ currentSize_ = 0 /\ capacity_ > 0
            /\ call'.arg > capacity_) =>
        LET L == call'.arg
            block == Block(nextVal, L)
            after == RingOf(capacity_', writePosition_', currentSize_', buffer_')
            one == insertEach(Ring, block, 1)
        IN  /\ status' = "ok"
            /\ currentSize_' = capacity_
            /\ \A i \in 0 .. capacity_ - 1 :
                  /\ copyElement(after, i).faults = {}
                  /\ copyElement(after, i).ret = block[L - i]
                  /\ copyElement(after, i).ret = copyElement(one, i).ret
            /\ currentSize_' = one.size]_vars

C16_Witness ==
    /\ call.op = "insertBlock"
    /\ capacity_ > 1
    /\ call.arg > capacity_
    /\ Len(history) = call.arg
    /\ currentSize_ = capacity_
    /\ copyElement(Ring, capacity_ - 1).ret = history[Len(history) - capacity_ + 1]
    /\ status = "ok"

\* C17: after any sequence of bulk inserts, each no longer than the
\* capacity C > 0, copy(i) for 0 <= i < currentSize() returns the (i+1)-th
\* most recent element of the concatenation of the inserted blocks.
C17_WrappingBlocks ==
    capacity_ > 0 =>
        /\ \A i \in 0 .. currentSize_ - 1 :
              /\ copyElement(Ring, i).faults = {}
              /\ copyElement(Ring, i).ret = history[Len(history) - i]
        /\ (call.op = "copy" /\ call.arg < currentSize_) =>
              call.ret = history[Len(history) - call.arg]

\* a block that straddled the physical end and overwrote older elements
C17_Witness ==
    /\ call.op = "insertBlock"
    /\ capacity_ > 2
    /\ call.arg <= capacity_
    /\ Len(call.ctor) >= 2
    /\ call.ctor[1] > call.ctor[Len(call.ctor)]
    /\ call.dtor # <<>>
    /\ Len(history) > capacity_ + call.arg
    /\ copyElement(Ring, 0).ret = history[Len(history)]
    /\ status = "ok"

\* C18: on a full buffer (size = capacity = C > 0), copy(i + n*C) returns
\* what copy(i) returns, for every i >= 0 and n >= 0; copy(C) returns what
\* copy(0) returns, the element of the insert just made.
C18_LookBackPeriod ==
    (capacity_ > 0 /\ currentSize_ = capacity_) =>
        /\ \A i \in 0 .. MaxBack : \A n \in 0 .. MaxBack :
              (i + n * capacity_ <= MaxBack) =>
                  /\ copyElement(Ring, i + n * capacity_).faults = {}
                  /\ copyElement(Ring, i + n * capacity_).ret = copyElement(Ring, i).ret
        /\ copyElement(Ring, capacity_).ret = copyElement(Ring, 0).ret
        /\ call.op = "insert" =>
              copyElement(Ring, capacity_).ret = history[Len(history)]
        /\ (call.op = "copy" /\ status = "ok") =>
              call.ret = copyElement(Ring, call.arg % capacity_).ret

C18_Witness ==
    /\ call.op = "copy"
    /\ capacity_ > 1
    /\ currentSize_ = capacity_
    /\ call.arg = 2 * capacity_ + 1
    /\ call.ret = copyElement(Ring, 1).ret
    /\ call.ret # copyElement(Ring, 0).ret
    /\ status = "ok"

\* C19: in every non-empty reachable state copy(capacity() - 1) returns
\* the oldest element the buffer holds.
C19_OldestAtCapacityMinusOne ==
    (currentSize_ > 0 /\ status = "ok") =>
        /\ copyElement(Ring, capacity_ - 1).faults = {}
        /\ copyElement(Ring, capacity_ - 1).ret
             = Contents(capacity_, writePosition_, currentSize_, buffer_)[1]

\* C20: copy(samplesBackward) and copy(destination, k) leave capacity,
\* size, writeCursor and every stored element unchanged, and a copy call
\* that repeats the previous call returns what that call returned.
C20_CopyLeavesBufferAlone ==
    [][(call'.op \in {"copy", "copyBlock"}) =>
        /\ UNCHANGED ringVars
        /\ (call'.again /\ status' = "ok") =>
              /\ call'.ret = call.ret
              /\ call'.dest = call.dest]_vars

C20_Witness ==
    /\ call.op = "copyBlock"
    /\ call.again
    /\ call.ret >= 2
    /\ call.dest[1] = history[Len(history)]
    /\ status = "ok"

\* C21: on a buffer of capacity > 0, insert(value) of an owned temporary
\* stores the value and leaves the caller's element moved-from;
\* insert(value) of a reference stores an equal value and leaves the
\* caller's element unchanged.
C21_SingleForwarding ==
    [][(call'.op = "insert" /\ capacity_ > 0) =>
        /\ status' = "ok"
        /\ buffer_'[writePosition_].val = nextVal
        /\ copyElement(RingOf(capacity_', writePosition_', currentSize_', buffer_'), 0).ret
             = nextVal
        /\ call'.owned => (call'.src = <<MovedFrom>> /\ call'.moved = <<1>>)
        /\ ~call'.owned => (call'.src = <<nextVal>> /\ call'.moved = <<>>)]_vars

C21_Witness ==
    /\ call.op = "insert"
    /\ call.owned
    /\ call.src = <<MovedFrom>>
    /\ call.dtor # <<>>
    /\ Len(history) > capacity_
    /\ copyElement(Ring, 0).ret = history[Len(history)]
    /\ status = "ok"

\* C22: for every length L, a bulk insert of an owned-temporary block
\* moves from exactly the trailing min(L, capacity) source elements, each
\* once, and leaves every other source element unchanged; a bulk insert by
\* reference leaves every source element unchanged.
C22_BulkForwarding ==
    [][(call'.op = "insertBlock") =>
        LET L == call'.arg
            block == Block(nextVal, L)
            n == Min(L, capacity_)
        IN  /\ call'.owned =>
                  /\ Len(call'.moved) = n
                  /\ {call'.moved[j] : j \in 1 .. Len(call'.moved)} = (L - n + 1) .. L
                  /\ call'.src = [j \in 1 .. L |->
                                    IF j > L - n THEN MovedFrom ELSE block[j]]
            /\ ~call'.owned => (call'.src = block /\ call'.moved = <<>>)]_vars

\* C23: when the allocation inside reset(newCapacity) fails, the buffer is
\* left as it was: same capacity, size, writeCursor, stored elements and
\* storage.
C23_FailedResizeKeepsState ==
    [][(call'.op = "resetCapacity" /\ status' = "bad_alloc") =>
        /\ UNCHANGED ringVars
        /\ call'.dtor = <<>>]_vars

\* C24: copy(samplesBackward) on a buffer whose size is 0 returns
\* Element() for every samplesBackward and every capacity, capacity 0
\* included, reads no slot and changes no index state, in the sequential
\* and in the lock-free variant.
C24_EmptyReadPolicy ==
    /\ [](currentSize_ = 0 =>
            \A i \in 0 .. MaxBack :
                /\ copyElement(Ring, i).ret = DefaultElement
                /\ copyElement(Ring, i).reads = <<>>
                /\ copyElement(Ring, i).faults = {})
    /\ []((consumer.op = "copy" /\ consumer.pc = "idle" /\ consumer.size = 0) =>
            (consumer.ret = DefaultElement /\ consumer.reads = <<>>))
    /\ [][(consumer.op = "copy" /\ consumer.pc = "loadWrite" /\ consumer.size = 0
              /\ consumer' # consumer) =>
            /\ consumer'.pc = "idle"
            /\ status' = "ok"
            /\ UNCHANGED <<ringVars, readPosition_>>]_vars

C24_Witness ==
    /\ consumer.op = "copy"
    /\ consumer.pc = "idle"
    /\ consumer.size = 0
    /\ consumer.arg = MaxAsk
    /\ consumer.ret = DefaultElement
    /\ capacity_ = 0
    /\ status = "ok"

\* C25: in the lock-free variant no step of an insert writes readCursor
\* (or the capacity), no step of a copy writes writeCursor, size, capacity
\* or a storage slot, and only reset writes cells of both roles.
C25_SingleWriter ==
    [][/\ (producer' # producer) =>
             (readPosition_' = readPosition_ /\ capacity_' = capacity_)
       /\ (consumer' # consumer) => UNCHANGED ringVars
       /\ (readPosition_' # readPosition_ /\ <<writePosition_, currentSize_, buffer_>>'
                                              # <<writePosition_, currentSize_, buffer_>>)
             => ResetStep]_vars

C25_Witness ==
    /\ readPosition_ = 1
    /\ writePosition_ = 0
    /\ currentSize_ = 2
    /\ producer.pc = "idle"
    /\ consumer.pc = "idle"
    /\ status = "ok"

\* C26: every operation finishes after a number of its own steps bounded
\* by the requested element count or the capacity, and a thread inside an
\* operation can always take its next step, whatever the other thread has
\* written.
C26_BoundedNonBlocking ==
    /\ producer.pc = "storage" =>
          Len(producer.ops) <= 2 * (IF capacity_ = 0 THEN 1 ELSE capacity_)
    /\ consumer.pc = "read" =>
          Len(consumer.plan) <= (IF consumer.op = "copy" THEN 1 ELSE consumer.arg)
    /\ call.op = "reset" => Len(call.dtor) <= capacity_
    /\ (status = "ok" /\ producer.pc # "idle") =>
          ENABLED (ProducerStorage \/ ProducerStoreSize \/ ProducerStoreWrite)
    /\ (status = "ok" /\ consumer.pc # "idle") =>
          ENABLED (ConsumerLoadSize \/ ConsumerLoadWrite \/ ConsumerRead
                   \/ ConsumerStoreRead)

\* C27: for every buffer with capacity N > 0 the write cursor is in
\* [0, N) after every operation.
C27_WriteCursorRange ==
    capacity_ > 0 => writePosition_ \in 0 .. capacity_ - 1

\* a bulk insert that ended exactly at the physical end
C27_Witness ==
    /\ call.op = "insertBlock"
    /\ capacity_ > 1
    /\ call.ctor # <<>>
    /\ call.ctor[Len(call.ctor)] = capacity_ - 1
    /\ call.ctor[1] > 0
    /\ writePosition_ = 0
    /\ status = "ok"

\* C28: on a buffer of capacity > 0 every insert, single or bulk,
\* constructs only into slots that are free at that moment and destructs
\* only occupied slots, and stays inside the storage.
C28_DestructBeforeOverwrite ==
    [][(call'.op \in {"insert", "insertBlock"} /\ capacity_ > 0) =>
        /\ call'.faults \cap {"destruct_dead", "construct_live", "out_of_bounds"} = {}
        /\ \A i \in DOMAIN buffer_' : buffer_'[i].live \in {0, 1}
        /\ \A j \in 1 .. Len(call'.ctor) : buffer_'[call'.ctor[j]].live = 1
        /\ \A j \in 1 .. Len(call'.dtor) : buffer_[call'.dtor[j]].live = 1]_vars

\* a bulk insert that started on a partially filled buffer and became
\* full part-way through a wrap
C28_Witness ==
    /\ call.op = "insertBlock"
    /\ call.dtor # <<>>
    /\ Len(call.dtor) < Len(call.ctor)
    /\ call.ctor[1] > call.ctor[Len(call.ctor)]
    /\ currentSize_ = capacity_
    /\ status = "ok"

\* C29: for capacity C > 0, from size s and write cursor w,
\* insert(block, L) ends with size = min(C, s + L) and
\* writeCursor = (w + min(L, C)) mod C.
C29_BulkIndexUpdate ==
    [][(call'.op = "insertBlock" /\ capacity_ > 0) =>
        /\ currentSize_' = Min(capacity_, currentSize_ + call'.arg)
        /\ writePosition_' = (writePosition_ + Min(call'.arg, capacity_)) % capacity_]_vars

C29_Witness ==
    /\ call.op = "insertBlock"
    /\ call.arg > capacity_
    /\ Len(history) > call.arg
    /\ writePosition_ > 0
    /\ currentSize_ = capacity_
    /\ status = "ok"

\* C30: within every insert of the lock-free variant all destructions and
\* constructions happen before its store to size, and the store to size
\* before its store to writeCursor.
C30_PublishOrder ==
    [][(producer' # producer) =>
        /\ (buffer_' # buffer_) =>
              (producer.pc = "storage" /\ UNCHANGED <<currentSize_, writePosition_>>)
        /\ (producer.pc = "storage" /\ producer'.pc = "storeWrite") =>
              /\ producer.ops = <<>>
              /\ currentSize_' = producer.size
              /\ UNCHANGED <<buffer_, writePosition_>>
        /\ (producer.pc = "storeWrite") =>
              /\ producer'.pc = "idle"
              /\ currentSize_ = producer.size
              /\ writePosition_' = producer.w
              /\ UNCHANGED <<buffer_, currentSize_>>
        /\ (currentSize_' # currentSize_) =>
              (producer.pc = "storage" /\ producer.ops = <<>>)
        /\ (writePosition_' # writePosition_) => producer.pc = "storeWrite"]_vars

\* a bulk insert between its store to size and its store to writeCursor
C30_Witness ==
    /\ producer.pc = "storeWrite"
    /\ producer.w # writePosition_
    /\ currentSize_ = capacity_
    /\ capacity_ > 1
    /\ \A i \in DOMAIN buffer_ : buffer_[i].live = 1
    /\ Len(history) > capacity_
    /\ status = "ok"

\* C31: readCursor is advisory.  With readPosition_ holding any value at
\* any time, the value decides neither whether a step of an insert or of a
\* copy can be taken nor what it does: the accesses an insert lays out,
\* the size and write position it stores, the slots a copy reads and the
\* elements it returns are those computed from capacity, size, write
\* position and storage alone.
C31_ReadCursorAdvisory ==
    [][/\ (readPosition_' # readPosition_ /\ UNCHANGED <<ringVars, producer, consumer>>) =>
            /\ (ENABLED ProducerInsert)' = ENABLED ProducerInsert
            /\ (ENABLED ProducerInsertBlock)' = ENABLED ProducerInsertBlock
            /\ (ENABLED ProducerStorage)' = ENABLED ProducerStorage
            /\ (ENABLED ProducerStoreSize)' = ENABLED ProducerStoreSize
            /\ (ENABLED ProducerStoreWrite)' = ENABLED ProducerStoreWrite
            /\ (ENABLED ConsumerCopy)' = ENABLED ConsumerCopy
            /\ (ENABLED ConsumerCopyBlock)' = ENABLED ConsumerCopyBlock
            /\ (ENABLED ConsumerLoadSize)' = ENABLED ConsumerLoadSize
            /\ (ENABLED ConsumerLoadWrite)' = ENABLED ConsumerLoadWrite
            /\ (ENABLED ConsumerRead)' = ENABLED ConsumerRead
            /\ (ENABLED ConsumerStoreRead)' = ENABLED ConsumerStoreRead
       /\ (producer.pc = "idle" /\ producer'.pc = "storage") =>
            LET single == insertImplLF(capacity_, currentSize_, writePosition_, nextVal)
                bulk == insertBlockImplLF(capacity_, currentSize_, writePosition_,
                            Block(nextVal, nextVal' - nextVal), nextVal' - nextVal)
            IN  \E p \in {single, bulk} :
                    /\ producer'.ops = p.ops
                    /\ producer'.size = p.size
                    /\ producer'.w = p.w
       /\ (producer.pc = "storeWrite" /\ producer' # producer) =>
            (writePosition_' = producer.w /\ currentSize_' = currentSize_)
       /\ (consumer.pc = "loadWrite" /\ consumer' # consumer /\ consumer.size > 0) =>
            LET r == RingOf(IF consumer.op = "copy" THEN consumer.cap ELSE capacity_,
                            writePosition_, consumer.size, buffer_)
                x == IF consumer.op = "copy"
                     THEN copyElement(r, consumer.arg)
                     ELSE extractBlockElements(r, consumer.arg)
            IN  [j \in 1 .. Len(consumer'.plan) |-> consumer'.plan[j].slot] = x.reads
       /\ (consumer.pc = "read" /\ consumer.plan # <<>> /\ consumer' # consumer
             /\ status' = "ok") =>
            consumer'.dest[Head(consumer.plan).off] = buffer_[Head(consumer.plan).slot].val]_vars

\* an overwriting insert has laid out its accesses on a full buffer while
\* readPosition_ pointed at the slot it overwrites, and no copy has run
C31_Witness ==
    /\ producer.pc = "storage"
    /\ Len(producer.ops) = 2
    /\ currentSize_ = capacity_
    /\ capacity_ > 1
    /\ writePosition_ = 1
    /\ readPosition_ = writePosition_
    /\ consumer.op = "none"
    /\ status = "ok"

\* the state after a call equals what the sequential operation r leaves
SameRing(r) ==
    /\ capacity_' = r.cap
    /\ currentSize_' = r.size
    /\ buffer_' = r.buf
    /\ writePosition_' \in (IF "modulo_zero" \in r.faults THEN {0, r.w + 1} ELSE {r.w})
    /\ call'.dtor = r.dtor
    /\ call'.ctor = r.ctor
    /\ (status' = "ok") = (r.faults = {})

\* the copy delivered what the sequential copy x delivers
SameCopy(x) ==
    /\ UNCHANGED ringVars
    /\ call'.reads = x.reads
    /\ (status' = "ok") = (x.faults = {})
    /\ x.faults = {} => (call'.ret = x.ret /\ call'.dest = x.dest)

\* C32: driven by one thread, every call of the lock-free variant leaves
\* the capacity, size, write position and slot contents that the same call
\* of the sequential variant leaves from the same state, destructs and
\* constructs the same slots, and every copy returns the same elements.
C32_RefinesSequential ==
    [][/\ call'.op = "insert" => SameRing(insertImpl(Ring, nextVal))
       /\ call'.op = "insertBlock" =>
             SameRing(insertBlockImpl(Ring, Block(nextVal, call'.arg), call'.arg))
       /\ call'.op = "copy" => SameCopy(copyElement(Ring, call'.arg))
       /\ call'.op = "copyBlock" =>
             SameCopy(extractBlockElements(Ring, call'.arg))
       /\ call'.op = "reset" => SameRing(reset(Ring))
       /\ call'.op = "resetCapacity" => SameRing(resetCapacity(Ring, call'.arg))]_vars

\* a block longer than the capacity was inserted across the physical end
\* after a copy of the lock-free variant had stored readPosition_
C32_Witness ==
    /\ call.op = "insertBlock"
    /\ call.arg > capacity_
    /\ call.dtor # <<>>
    /\ call.ctor[1] > call.ctor[Len(call.ctor)]
    /\ readPosition_ > 0
    /\ status = "ok"

\* C33: a copy of the consumer thread that begins after the last insert
\* has made both index stores, with no insert running during it, returns
\* what the sequential copy returns on the buffer all completed inserts
\* have left: the same count, the same elements in the same destination
\* places, read from the same slots.
C33_QuiescentVisibility ==
    [][(consumer.pc # "idle" /\ consumer'.pc = "idle") =>
        LET x == IF consumer.op = "copy"
                 THEN copyElement(Ring, consumer.arg)
                 ELSE extractBlockElements(Ring, consumer.arg)
        IN  /\ producer.pc = "idle"
            /\ [j \in 1 .. Len(consumer'.reads) |-> consumer'.reads[j].slot] = x.reads
            /\ \A j \in 1 .. Len(consumer'.reads) :
                  consumer'.reads[j].made /\ ~consumer'.reads[j].busy
            /\ consumer'.ret = x.ret
            /\ consumer.op = "copyBlock" => consumer'.dest = x.dest]_vars

\* a bulk copy over a window that wraps the physical end returned the two
\* newest elements after the buffer had been overwritten
C33_Witness ==
    /\ consumer.pc = "idle"
    /\ consumer.op = "copyBlock"
    /\ consumer.ret = 2
    /\ Len(consumer.reads) = 2
    /\ consumer.reads[1].slot > consumer.reads[2].slot
    /\ Len(history) > capacity_
    /\ consumer.dest[0] = history[Len(history) - 1]
    /\ consumer.dest[1] = history[Len(history)]
    /\ status = "ok"

\* A (size, write position) pair the buffer can hold between two producer
\* operations: below the capacity the write position equals the size.
HeldBetweenInserts(size, position) ==
    IF capacity_ = 0 THEN size = 0 /\ position = 0
    ELSE /\ size <= capacity_
         /\ position < capacity_
         /\ size < capacity_ => position = size

\* C34: the (size, writeCursor) pair a copy of the consumer thread has
\* loaded and computes with is a pair the buffer held at one instant
\* between producer operations, under every interleaving.
C34_ConsistentSnapshot ==
    (consumer.op # "none" /\ consumer.pc \in {"read", "idle"}) =>
        HeldBetweenInserts(consumer.size, consumer.w)

\* C35: in sequential use, in every reachable state with size > 0 (the
\* partially filled buffer included) and for every samplesBackward, the
\* slot copy(samplesBackward) reads is an occupied slot.
C35_LookBackReadsLive ==
    [][(call'.op = "copy" /\ currentSize_ > 0) =>
        /\ Len(call'.reads) = 1
        /\ call'.reads[1] \in OccupiedRange(capacity_, writePosition_, currentSize_)
        /\ buffer_[call'.reads[1]].live = 1
        /\ call'.faults = {}]_vars

\* C36: in every reachable state with size < capacity the write position
\* equals the size and the occupied slots are exactly [0, size); so with
\* size 0 (below the capacity) the write position is 0.
C36_UnwrappedPrefix ==
    currentSize_ < capacity_ =>
        /\ writePosition_ = currentSize_
        /\ \A i \in DOMAIN buffer_ : (buffer_[i].live = 1) = (i < currentSize_)
        /\ currentSize_ = 0 => writePosition_ = 0

\* a partially filled buffer that was filled again after a reset
C36_Witness ==
    /\ capacity_ = MaxCap
    /\ currentSize_ = 2
    /\ writePosition_ = 2
    /\ Len(history) = 2
    /\ nextVal > MaxCap + 2
    /\ buffer_[0].live = 1
    /\ buffer_[1].live = 1
    /\ buffer_[2].live = 0
    /\ buffer_[2].val # 0
    /\ status = "ok"

\* C37: copy(destination, k) writes exactly the destination places
\* 0 .. min(k, size) - 1, each once, and none at or beyond min(k, size),
\* in every reachable state, also when the read window wraps around the
\* physical end; the lock-free variant lays out the same places.
C37_DestinationFrame ==
    [][(call'.op = "copyBlock") =>
        LET n == Min(call'.arg, currentSize_)
            plan == extractBlockElementsLF(currentSize_, writePosition_, call'.arg).plan
        IN  /\ call'.faults = {}
            /\ Len(call'.reads) = n
            /\ \A i \in DOMAIN call'.dest : (call'.dest[i] # Untouched) = (i < n)
            /\ [j \in 1 .. Len(plan) |-> plan[j].off] = [j \in 1 .. n |-> j - 1]]_vars

\* more elements were asked for than the full buffer holds and the read
\* window wrapped: the places from size on are as the caller left them
C37_Witness ==
    /\ call.op = "copyBlock"
    /\ call.arg > currentSize_
    /\ currentSize_ = capacity_
    /\ capacity_ > 2
    /\ Len(call.reads) = capacity_
    /\ call.reads[1] > call.reads[Len(call.reads)]
    /\ call.dest[capacity_ - 1] # Untouched
    /\ call.dest[capacity_] = Untouched
    /\ status = "ok"

\* C38: insert(block, 0) in any reachable state, any capacity, completes
\* and leaves size, write position, capacity and every slot unchanged, and
\* touches no source element.
C38_EmptyBlockNoOp ==
    [][(call'.op = "insertBlock" /\ call'.arg = 0) =>
        /\ UNCHANGED ringVars
        /\ call'.ctor = <<>>
        /\ call'.dtor = <<>>
        /\ call'.moved = <<>>
        /\ call'.faults = {}
        /\ status' = "ok"]_vars

\* the n most recent of the elements h, oldest first
MostRecent(h, n) == SubSeq(h, Len(h) - n + 1, Len(h))

\* C39: in the legacy variant, after any inserts, moveLast() and
\* moveBlock() calls, moveBlock(destination, n) returns n' = min(n, size),
\* writes the n' most recent elements oldest-first and lowers the size by
\* n'; copyBlock(destination, k) then yields the min(k, size) most recent
\* elements still held, oldest-first.
C39_LegacyMoveOut ==
    [][/\ call'.op = "moveBlock" =>
            LET n == Min(call'.arg, currentSize_)
            IN  /\ call'.ret = n
                /\ currentSize_' = currentSize_ - n
                /\ \A j \in 1 .. n : call'.dest[j - 1] = MostRecent(history, n)[j]
       /\ call'.op = "copyBlock" =>
            LET n == Min(call'.arg, currentSize_)
            IN  /\ status' = "ok"
                /\ \A j \in 1 .. n : call'.dest[j - 1] = MostRecent(history, n)[j]]_vars

====
